---- MODULE Spec2Model ----
(***************************************************************************)
(* Incremental-ingestion and data-quality subsystem of buildcpg-labs:      *)
(*   - DuckDBLoader.load_jobs     (lab3_hiring_signals/src/loader.py)      *)
(*   - CSVMonitor.check_csv       (shared/utils/csv_monitor.py)            *)
(*   - DataInspector              (shared/utils/data_inspector.py)         *)
(* Each component has its own specification over the shared variables.    *)
(***************************************************************************)
EXTENDS Integers, Sequences, FiniteSets, TLC

(***************************************************************************)
(* Bounds                                                                  *)
(***************************************************************************)
NumKeys == 2
MaxBatch == 2
MaxLines == 2
MaxLineBytes == 2
MaxTime == 1
NumCols == 2
MaxRows == 2

(***************************************************************************)
(* Values                                                                  *)
(***************************************************************************)
\* a dict key that is not there (job["f"] raises KeyError, job.get("f") is None)
Absent == "ABSENT"
\* Python None / SQL NULL
Null == "NULL"

KeyNames == <<"a", "b", "c", "d", "e", "f", "g">>
Keys == {KeyNames[i] : i \in 1..NumKeys}

Loaders == {"L1", "L2"}

\* the column list of the INSERT statement, in order
Columns == <<"job_id", "company", "title", "description", "location",
             "posting_date", "url", "source", "scraped_at">>
\* fields read with job["..."] when the rows are prepared
RequiredFields == {"job_id", "company", "title", "source", "scraped_at"}
\* fields read with job.get("...")
OptionalFields == {"description", "location", "posting_date", "url"}
\* columns of raw_jobs declared PRIMARY KEY or NOT NULL
NotNullColumns == {"job_id", "company", "title", "source"}

AllFields == RequiredFields \cup OptionalFields

Job(k, c) ==
    [f \in AllFields |->
        CASE f = "job_id" -> k
          [] f = "company" -> c
          [] f = "title" -> "t"
          [] f = "source" -> "s"
          [] f = "scraped_at" -> "ts"
          [] f = "description" -> IF c = "y" THEN "d" ELSE Absent
          [] OTHER -> Absent]

\* the job dictionaries handed to load_jobs: one job per key, a second job
\* for the first key with other field values, and jobs with a required field
\* missing or None
WellFormedJobs == {Job(k, "x") : k \in Keys} \cup {Job(KeyNames[1], "y")}
MalformedJobs ==
    {[Job(KeyNames[1], "x") EXCEPT ![f] = d] :
        f \in {"job_id", "company", "scraped_at"}, d \in {Absent, Null}}
Jobs == WellFormedJobs \cup MalformedJobs
Batches == UNION {[1..n -> Jobs] : n \in 0..MaxBatch}

VARIABLES
    table,        \* raw_jobs: the set of stored rows
    lpc,          \* per loader: "idle", "insert", "count", "done", "raised"
    lbatch,       \* per loader: the jobs argument of the running/last call
    lrows,        \* per loader: the prepared parameter rows
    lidx,         \* per loader: next row executemany will execute
    lresult,      \* per loader: value returned by the last call
    lbefore,      \* per loader: raw_jobs as it was when the call began
    lrepeat,      \* per loader: the call repeats the call made just before it
    lastCaller    \* loader whose call began most recently

loaderVars == <<table, lpc, lbatch, lrows, lidx, lresult, lbefore, lrepeat,
                lastCaller>>

VARIABLES
    files,        \* the file system: path -> file (or no file)
    now,          \* the clock read by datetime.now() and stamped on writes
    stateFile,    \* the JSON state file shared by the monitors
    mon,          \* per monitor: self.state
    fresh,        \* per monitor: no check_csv call since it was constructed
    cres,         \* the check_csv call made in the last step, if any:
                  \* who, path, return site, locals and returned tuple
    settled,      \* paths checked while present and not modified since
    tally         \* the caller's books on the CSV under study: the sum of
                  \* the estimates it was handed, and what it saw of the
                  \* file's line count from one check to the next

csvVars == <<files, now, stateFile, mon, fresh, cres, settled, tally>>

VARIABLES
    db,           \* the inspected table: exists, column names, rows
    conn,         \* the inspector's connection: "up" or "down"
    ires,         \* the inspector call made in the last step, if any
    scan          \* the inspection script: position, tables left, lines printed

inspVars == <<db, conn, ires, scan>>

vars == <<loaderVars, csvVars, inspVars>>

(***************************************************************************)
(* DuckDBLoader                                                            *)
(***************************************************************************)
\* the tuple built for one job: job[...] for required fields, job.get(...)
\* (None when the key is missing) for the optional ones
PrepareRow(job) ==
    [f \in AllFields |->
        IF f \in OptionalFields /\ job[f] = Absent THEN Null ELSE job[f]]

\* job[...] raises KeyError
RaisesKeyError(job) == \E f \in RequiredFields : job[f] = Absent

JobIds(batch) == {batch[i]["job_id"] : i \in 1..Len(batch)}

\* NOT NULL / PRIMARY KEY columns of the fallback schema
ViolatesNotNull(row) == \E f \in NotNullColumns : row[f] = Null

\* the job_id values stored in t
TableKeys(t) == {r["job_id"] : r \in t}

\* the rows of t stored under job_id k
RowsOf(t, k) == {r \in t : r["job_id"] = k}

\* INSERT into a table that declares no key: the row is stored whatever
\* the table holds
InsertAlways(t, row) == t \cup {row}

\* INSERT ... ON CONFLICT (job_id) DO UPDATE: the incoming row wins
InsertOrReplace(t, row) == (t \ RowsOf(t, row["job_id"])) \cup {row}

\* INSERT ... ON CONFLICT (job_id) DO NOTHING of one row: one statement,
\* the conflict test and the insertion are not interleaved with another
\* connection's statement
InsertOrIgnore(t, row) ==
    IF row["job_id"] \in TableKeys(t) THEN t ELSE t \cup {row}

\* SELECT COUNT(*) FROM raw_jobs WHERE job_id IN (job_ids)
CountDuplicates(t, batch) ==
    Cardinality({r \in t : r["job_id"] \in JobIds(batch)})

\* parameter rows taken from the end of the list
ParameterRowReversed(rows, i) == rows[Len(rows) + 1 - i]

\* executemany(sql, rows) executes the statement for rows[0], rows[1], ...
\* in list order
ParameterRow(rows, i) == rows[i]

\* a guard that lets the empty batch through
NoJobsNever(batch) == FALSE

\* if not jobs
NoJobs(batch) == Len(batch) = 0

\* load_jobs up to the start of executemany; the caller hands over a new
\* batch, or runs the batch of the call that just returned once more
LoadBegin(l, batch) ==
    /\ \/ lpc[l] = "idle"
       \/ lpc[l] = "done" /\ batch = lbatch[l]
    /\ lbatch' = [lbatch EXCEPT ![l] = batch]
    /\ lbefore' = [lbefore EXCEPT ![l] = table]
    /\ lrepeat' = [lrepeat EXCEPT ![l] =
                      lpc[l] = "done" /\ lastCaller = l /\ batch = lbatch[l]]
    /\ lastCaller' = l
    /\ lidx' = [lidx EXCEPT ![l] = 1]
    /\ IF NoJobs(batch)
       THEN /\ lpc' = [lpc EXCEPT ![l] = "done"]
            /\ lresult' = [lresult EXCEPT ![l] = 0]
            /\ lrows' = [lrows EXCEPT ![l] = <<>>]
       ELSE IF \E i \in 1..Len(batch) : RaisesKeyError(batch[i])
       THEN /\ lpc' = [lpc EXCEPT ![l] = "raised"]
            /\ lrows' = [lrows EXCEPT ![l] = <<>>]
            /\ UNCHANGED lresult
       ELSE /\ lpc' = [lpc EXCEPT ![l] = "insert"]
            /\ lrows' = [lrows EXCEPT ![l] =
                            [i \in 1..Len(batch) |-> PrepareRow(batch[i])]]
            /\ UNCHANGED lresult
    /\ UNCHANGED table
    /\ UNCHANGED <<csvVars, inspVars>>

\* executemany runs the prepared INSERT once per parameter row
InsertRow(l) ==
    /\ lpc[l] = "insert"
    /\ LET row == ParameterRow(lrows[l], lidx[l]) IN
       IF ViolatesNotNull(row)
       THEN /\ lpc' = [lpc EXCEPT ![l] = "raised"]
            /\ UNCHANGED <<table, lidx>>
       ELSE /\ table' = InsertOrIgnore(table, row)
            /\ lidx' = [lidx EXCEPT ![l] = lidx[l] + 1]
            /\ lpc' = [lpc EXCEPT ![l] =
                          IF lidx[l] = Len(lrows[l]) THEN "count" ELSE "insert"]
    /\ UNCHANGED <<lbatch, lrows, lresult, lbefore, lrepeat, lastCaller>>
    /\ UNCHANGED <<csvVars, inspVars>>

\* inserted = len(jobs) - self._count_duplicates(jobs); return inserted
CountAndReturn(l) ==
    /\ lpc[l] = "count"
    /\ lresult' = [lresult EXCEPT ![l] =
                      Len(lbatch[l]) - CountDuplicates(table, lbatch[l])]
    /\ lpc' = [lpc EXCEPT ![l] = "done"]
    /\ UNCHANGED <<table, lbatch, lrows, lidx, lbefore, lrepeat, lastCaller>>
    /\ UNCHANGED <<csvVars, inspVars>>

(***************************************************************************)
(* CSVMonitor                                                              *)
(***************************************************************************)
Paths == {"p", "q"}
Monitors == {"M1", "M2"}

\* what the monitor can see of a file's content: its number of lines and
\* its size in bytes, every line holding 1..MaxLineBytes bytes
Contents ==
    {c \in [lines : 0..MaxLines, size : 0..(MaxLines * MaxLineBytes)] :
        c.lines <= c.size /\ c.size <= c.lines * MaxLineBytes}

NoFile == [exists |-> FALSE, lines |-> 0, size |-> 0, mtime |-> 0]

\* a check that takes every path for an existing file
ExistsAlways(f) == TRUE

\* os.path.exists
Exists(f) == f.exists

\* os.path.getsize
GetSize(f) == f.size

\* line counting that forgets the header line
CountRowsNoHeader(f, readOk) == IF readOk THEN f.lines ELSE 0

\* line counting whose result does not depend on the read succeeding
CountRowsIgnoringFailure(f, readOk) == f.lines - 1

\* _count_rows: lines minus the header line; 0 when reading the file raises
\* (readOk = FALSE)
CountRows(f, readOk) == IF readOk THEN f.lines - 1 ELSE 0

\* a lookup that forgets the stored row count
StoredRowsZero(entry) == 0

\* previous_state.get('row_count', 0)
StoredRows(entry) ==
    IF "row_count" \in DOMAIN entry THEN entry.row_count ELSE 0

\* the plain difference, negative when rows were dropped
SecondArgument(a, b) == b

\* the size of the difference, whichever way the row count moved
LargerMagnitude(a, b) == IF b >= a THEN b ELSE a - b

\* max(0, current_rows - previous_rows)
Max(a, b) == IF a >= b THEN a ELSE b

\* a monitor that starts from nothing instead of reading the state file
LoadNothing(sf) == << >>

\* _load_state: the mapping in the file, {} when there is no file.  What
\* json.load returns is what json.dump was given: the keys are str, the
\* values int (size, row_count), float (mtime) and str (last_check).
LoadState(sf) == IF sf.exists THEN sf.map ELSE << >>

\* a comparison that reports growth only
HasGrown(current_size, previous_size) == current_size > previous_size

\* a comparison that reports every check as a change
HasChangedAlways(current_size, previous_size) == TRUE

\* has_changed = current_size != previous_size
HasChanged(current_size, previous_size) == current_size # previous_size

\* the entry written on first observation and on a detected change
NewEntry(f, rows) ==
    [size |-> GetSize(f), mtime |-> f.mtime, last_check |-> now,
     row_count |-> rows]

\* an assignment that forgets the entries of the other paths
PutEntryAlone(m, path, entry) == [x \in {path} |-> entry]

\* self.state[csv_path] = {...}
PutEntry(m, path, entry) ==
    [x \in DOMAIN m \cup {path} |-> IF x = path THEN entry ELSE m[x]]

\* a save that writes the entry of the checked path only
PersistedCheckedOnly(m, path) == [x \in {path} |-> m[x]]

\* _save_state: json.dump(self.state), the whole mapping whichever path
\* was checked
Persisted(m, path) == m

\* a state file opened for update: what it held is kept
KeptOnOpen(old) == old

\* open(self.state_file, 'w'): what the file held is discarded
Truncated(old) == << >>

\* _save_state on a state file sf: the file holds what is left of its old
\* content after open(), overlaid with the mapping that is dumped
SaveState(sf, m, path) ==
    LET kept == Truncated(sf.map)
        dumped == Persisted(m, path)
    IN [exists |-> TRUE,
        map |-> [x \in DOMAIN kept \cup DOMAIN dumped |->
                    IF x \in DOMAIN dumped THEN dumped[x] ELSE kept[x]]]

\* a check that restores self.state when the save raises
RolledBack(old, new, saveOk) == IF saveOk THEN new ELSE old

\* self.state after the check: self.state[csv_path] = {...} is executed
\* before self._save_state(), and nothing undoes it when the save raises
InMemory(old, new, saveOk) == new

\* the caller has made no check yet
NoTally == [sum |-> 0, seen |-> FALSE, lines |-> 0, fell |-> FALSE,
            shrunk |-> FALSE]

\* no check_csv call was made in the last step
NoCall ==
    [by |-> "M1", path |-> "p", site |-> "none", changed |-> FALSE,
     new_rows |-> 0, size |-> 0, counted |-> FALSE, previous_rows |-> 0,
     repeat |-> FALSE, fresh |-> FALSE, read_ok |-> TRUE]

\* CSVMonitor(state_file)
Construct(d) ==
    /\ mon' = [mon EXCEPT ![d] = LoadState(stateFile)]
    /\ fresh' = [fresh EXCEPT ![d] = TRUE]
    /\ cres' = NoCall
    /\ UNCHANGED <<files, now, stateFile, settled>>
    /\ UNCHANGED <<loaderVars, inspVars, tally>>

\* check_csv(csv_path); saveOk = FALSE: open(state_file, 'w') raises;
\* readOk = FALSE: the file cannot be read when its rows are counted
Check(d, path, saveOk, readOk) ==
    LET f == files[path]
        current_size == GetSize(f)
        tracked == path \in DOMAIN mon[d]
        Result(site, changed, rows, size, counted) ==
            [by |-> d, path |-> path, site |-> site, changed |-> changed,
             new_rows |-> rows, size |-> size, counted |-> counted,
             previous_rows |->
                 IF f.exists /\ tracked THEN StoredRows(mon[d][path]) ELSE 0,
             repeat |-> path \in settled,
             fresh |-> fresh[d],
             read_ok |-> ~counted \/ readOk]
        Save(m) == IF saveOk THEN SaveState(stateFile, m, path)
                   ELSE stateFile
    IN
    /\ fresh' = [fresh EXCEPT ![d] = FALSE]
    /\ settled' = IF f.exists THEN settled \cup {path} ELSE settled
    /\ UNCHANGED <<files, now>>
    /\ IF ~Exists(f)
       THEN /\ cres' = Result("missing", FALSE, 0, 0, FALSE)
            /\ UNCHANGED <<mon, stateFile>>
       ELSE IF ~tracked
       THEN LET entry == NewEntry(f, CountRows(f, readOk))
                m == PutEntry(mon[d], path, entry) IN
            /\ mon' = [mon EXCEPT ![d] = InMemory(mon[d], m, saveOk)]
            /\ stateFile' = Save(m)
            /\ cres' = IF saveOk
                       THEN Result("first", TRUE, entry.row_count,
                                   current_size, TRUE)
                       ELSE Result("raised", FALSE, 0, 0, TRUE)
       ELSE LET previous_state == mon[d][path]
                previous_rows == StoredRows(previous_state)
                has_changed == HasChanged(current_size, previous_state.size)
            IN
            IF has_changed
            THEN LET current_rows == CountRows(f, readOk)
                     new_rows == Max(0, current_rows - previous_rows)
                     m == PutEntry(mon[d], path, NewEntry(f, current_rows))
                 IN
                 /\ mon' = [mon EXCEPT ![d] = InMemory(mon[d], m, saveOk)]
                 /\ stateFile' = Save(m)
                 /\ cres' = IF saveOk
                            THEN Result("changed", TRUE, new_rows,
                                        current_size, TRUE)
                            ELSE Result("raised", FALSE, 0, 0, TRUE)
            ELSE /\ cres' = Result("same", FALSE, 0, current_size, FALSE)
                 /\ UNCHANGED <<mon, stateFile>>
    /\ UNCHANGED <<loaderVars, inspVars>>

\* a check_csv call whose caller keeps no books
CheckCsv(d, path, saveOk, readOk) ==
    /\ Check(d, path, saveOk, readOk)
    /\ UNCHANGED tally

\* the environment writes a file: creation, rewrite, truncation
WriteFile(path, content) ==
    /\ files' = [files EXCEPT ![path] =
                    [exists |-> TRUE, lines |-> content.lines,
                     size |-> content.size, mtime |-> now]]
    /\ settled' = settled \ {path}
    /\ cres' = NoCall
    /\ UNCHANGED <<now, stateFile, mon, fresh>>
    /\ UNCHANGED <<loaderVars, inspVars, tally>>

\* the environment appends one line to an existing file
AppendLine(path, bytes) ==
    /\ files[path].exists
    /\ files[path].lines < MaxLines
    /\ files' = [files EXCEPT ![path].lines = @ + 1,
                              ![path].size = @ + bytes,
                              ![path].mtime = now]
    /\ settled' = settled \ {path}
    /\ cres' = NoCall
    /\ UNCHANGED <<now, stateFile, mon, fresh>>
    /\ UNCHANGED <<loaderVars, inspVars, tally>>

\* the environment appends several rows to an existing file in one write
AppendRows(path, rows, bytes) ==
    /\ files[path].exists
    /\ files' = [files EXCEPT ![path].lines = @ + rows,
                              ![path].size = @ + bytes,
                              ![path].mtime = now]
    /\ settled' = settled \ {path}
    /\ cres' = NoCall
    /\ UNCHANGED <<now, stateFile, mon, fresh>>
    /\ UNCHANGED <<loaderVars, inspVars, tally>>

\* the environment removes a file
DeleteFile(path) ==
    /\ files[path].exists
    /\ files' = [files EXCEPT ![path] = NoFile]
    /\ settled' = settled \ {path}
    /\ cres' = NoCall
    /\ UNCHANGED <<now, stateFile, mon, fresh>>
    /\ UNCHANGED <<loaderVars, inspVars, tally>>

\* time passes
Tick ==
    /\ now < MaxTime
    /\ now' = now + 1
    /\ cres' = NoCall
    /\ UNCHANGED <<files, stateFile, mon, fresh, settled>>
    /\ UNCHANGED <<loaderVars, inspVars, tally>>

\* no state file yet; "q" is on disk already (a header and one row)
CsvInit ==
    /\ files = [x \in Paths |->
                    IF x = "q"
                    THEN [exists |-> TRUE, lines |-> 2, size |-> 2,
                          mtime |-> 0]
                    ELSE NoFile]
    /\ now = 0
    /\ stateFile = [exists |-> FALSE, map |-> << >>]
    /\ mon = [d \in Monitors |-> << >>]
    /\ fresh = [d \in Monitors |-> TRUE]
    /\ cres = NoCall
    /\ settled = {}
    /\ tally = NoTally

(***************************************************************************)
(* DataInspector                                                           *)
(***************************************************************************)
ColNames == <<"c1", "c2", "c3", "c4">>
\* the queries tell NULL from a value and equal keys from different ones
CellValues == {Null, "u"}
\* a key_column argument that names no column of the table
NoSuchColumn == "order_id"

ColSet(n) == {ColNames[i] : i \in 1..n}
RowsOver(cols) == [cols -> CellValues]

AllRows == UNION {RowsOver(ColSet(n)) : n \in 1..NumCols}

NoTable == [exists |-> FALSE, cols |-> {}, rows |-> <<>>]

\* {'error': str(e)}
ErrorDict == [error |-> "e"]

\* a database in which no statement ever fails
TableQueryNeverFails(d, up) == FALSE

\* a statement fails when the connection is lost or it names a missing table
TableQueryFails(d, up) == ~up \/ ~d.exists

\* SELECT column_name FROM information_schema.columns WHERE ...: no rows
\* for a table that does not exist
CatalogColumns(d) == IF d.exists THEN d.cols ELSE {}

\* get_table_stats
GetTableStats(d, up) ==
    IF TableQueryFails(d, up)
    THEN ErrorDict
    ELSE [rows |-> Len(d.rows), cols |-> Cardinality(CatalogColumns(d)),
          col_names |-> CatalogColumns(d)]

\* the rows that repeat the key of an earlier row
SurplusRows(d, key) ==
    {i \in 1..Len(d.rows) :
        \E j \in 1..(i - 1) : d.rows[j][key] = d.rows[i][key]}

\* key values held by more than one row (GROUP BY ... HAVING COUNT(*) > 1)
DuplicatedKeys(d, key) ==
    {v \in {d.rows[i][key] : i \in 1..Len(d.rows)} :
        Cardinality({i \in 1..Len(d.rows) : d.rows[i][key] = v}) > 1}

\* a duplicate check that counts nothing when the key names no column
CheckDuplicatesLenient(d, up, key) ==
    IF TableQueryFails(d, up)
    THEN [error |-> TRUE, count |-> 0]
    ELSE IF key \notin d.cols
    THEN [error |-> FALSE, count |-> 0]
    ELSE [error |-> FALSE, count |-> Cardinality(DuplicatedKeys(d, key))]

\* check_duplicates: the count, or the error dict
CheckDuplicates(d, up, key) ==
    IF TableQueryFails(d, up) \/ key \notin d.cols
    THEN [error |-> TRUE, count |-> 0]
    ELSE [error |-> FALSE, count |-> Cardinality(DuplicatedKeys(d, key))]

NullCount(d, col) ==
    Cardinality({i \in 1..Len(d.rows) : d.rows[i][col] = Null})

\* a null check that reports every column, also those without nulls
CheckNullValuesDense(d, up) ==
    IF ~up
    THEN ErrorDict
    ELSE [c \in CatalogColumns(d) |-> NullCount(d, c)]

\* check_null_values: column -> null count for the columns with nulls
CheckNullValues(d, up) ==
    IF ~up
    THEN ErrorDict
    ELSE LET with_nulls == {c \in CatalogColumns(d) : NullCount(d, c) > 0}
         IN [c \in with_nulls |-> NullCount(d, c)]

\* a penalty applied whether or not a key column is supplied
PenaltyAlways(with_key, dup) == 10

\* if key_column: ... if dup_count > 0: score -= 10
DuplicatePenalty(with_key, dup) ==
    IF with_key /\ dup.count > 0 THEN 10 ELSE 0

\* a score that rounds the null deduction down instead of truncating the
\* score
ScoreRoundedUp(base, n, cols) == base - ((50 * n) \div cols)

\* int(score) for score = 100 - penalty - (n / cols) * 100 * 0.5
ScoreAfterNulls(base, n, cols) == base - ((50 * n + cols - 1) \div cols)

Min(a, b) == IF a <= b THEN a ELSE b

\* no inspector call was made in the last step
NoInspect ==
    [op |-> "none", key |-> Null, score |-> 0, raised |-> FALSE,
     dup |-> [error |-> FALSE, count |-> 0], null_dict |-> << >>,
     stats |-> << >>, penalty |-> 0]

\* get_quality_score(schema, table, key_column); the connection is lost
\* before sub-call lossAt (1 duplicates, 2 nulls, 3 stats; 4 not at all)
GetQualityScore(key, lossAt) ==
    LET up(k) == conn = "up" /\ k < lossAt
        with_key == key # Null
        dup == IF with_key THEN CheckDuplicates(db, up(1), key)
               ELSE [error |-> FALSE, count |-> 0]
        \* dup_count > 0 with a dict on the left raises TypeError
        type_error == with_key /\ dup.error
        null_dict == CheckNullValues(db, up(2))
        stats == GetTableStats(db, up(3))
        penalty == DuplicatePenalty(with_key, dup)
        nulled == IF "cols" \in DOMAIN stats
                  THEN ScoreAfterNulls(100 - penalty,
                                       Cardinality(DOMAIN null_dict),
                                       stats.cols)
                  ELSE 100 - penalty
        score == IF "rows" \in DOMAIN stats /\ stats.rows = 0
                 THEN 0 ELSE nulled
    IN
    /\ ires' = IF type_error
               THEN [op |-> "score", key |-> key, score |-> 0,
                     raised |-> FALSE, dup |-> dup, null_dict |-> << >>,
                     stats |-> << >>, penalty |-> 0]
               ELSE [op |-> "score", key |-> key,
                     score |-> Max(0, Min(100, score)),
                     raised |-> FALSE, dup |-> dup, null_dict |-> null_dict,
                     stats |-> stats, penalty |-> penalty]
    /\ conn' = IF lossAt < 4 THEN "down" ELSE conn
    /\ UNCHANGED db
    /\ UNCHANGED <<loaderVars, csvVars, scan>>

\* get_table_stats(schema, table); lost: the connection is lost before it
TableStats(lost) ==
    /\ ires' = [NoInspect EXCEPT
                   !.op = "stats",
                   !.stats = GetTableStats(db, conn = "up" /\ ~lost)]
    /\ conn' = IF lost THEN "down" ELSE conn
    /\ UNCHANGED db
    /\ UNCHANGED <<loaderVars, csvVars, scan>>

\* check_duplicates(schema, table, key_column)
Duplicates(key, lost) ==
    /\ ires' = [NoInspect EXCEPT
                   !.op = "duplicates",
                   !.key = key,
                   !.dup = CheckDuplicates(db, conn = "up" /\ ~lost, key)]
    /\ conn' = IF lost THEN "down" ELSE conn
    /\ UNCHANGED db
    /\ UNCHANGED <<loaderVars, csvVars, scan>>

\* check_null_values(schema, table)
NullValues(lost) ==
    /\ ires' = [NoInspect EXCEPT
                   !.op = "nulls",
                   !.null_dict = CheckNullValues(db, conn = "up" /\ ~lost)]
    /\ conn' = IF lost THEN "down" ELSE conn
    /\ UNCHANGED db
    /\ UNCHANGED <<loaderVars, csvVars, scan>>

\* DataInspector(db_path): duckdb.connect
Connect ==
    /\ conn = "down"
    /\ conn' = "up"
    /\ ires' = NoInspect
    /\ UNCHANGED db
    /\ UNCHANGED <<loaderVars, csvVars, scan>>

\* the warehouse owner creates the table with n columns
CreateTable(n) ==
    /\ ~db.exists
    /\ db' = [exists |-> TRUE, cols |-> ColSet(n), rows |-> <<>>]
    /\ ires' = NoInspect
    /\ UNCHANGED conn
    /\ UNCHANGED <<loaderVars, csvVars, scan>>

\* the warehouse owner drops the table
DropTable ==
    /\ db.exists
    /\ db' = NoTable
    /\ ires' = NoInspect
    /\ UNCHANGED conn
    /\ UNCHANGED <<loaderVars, csvVars, scan>>

\* a row arrives in the table
AddRow(row) ==
    /\ db.exists
    /\ row \in RowsOver(db.cols)
    /\ Len(db.rows) < MaxRows
    /\ db' = [db EXCEPT !.rows = Append(@, row)]
    /\ ires' = NoInspect
    /\ UNCHANGED conn
    /\ UNCHANGED <<loaderVars, csvVars, scan>>

\* the tables get_tables_by_schema lists, in name order
ListedTables == <<"t1", "t2", "t3">>

\* what a listed table can be when its turn comes: dropped since the
\* listing (or named so that the unquoted name does not parse), or there
\* with no row or one row
TableStates ==
    {NoTable}
    \cup UNION {{[exists |-> TRUE, cols |-> ColSet(n), rows |-> r] :
                    r \in {<< >>, <<[c \in ColSet(n) |-> "u"]>>}} :
                 n \in 1..NumCols}

NoScan == [pc |-> "idle", todo |-> << >>, report |-> << >>]

\* inspect_data.main: the tables of the schema are listed
ScanBegin ==
    /\ scan.pc = "idle"
    /\ scan' = [pc |-> "running", todo |-> ListedTables, report |-> << >>]
    /\ UNCHANGED <<db, conn, ires>>
    /\ UNCHANGED <<loaderVars, csvVars>>

\* one turn of 'for table in tables': get_table_stats, then the print that
\* reads stats['rows'] and stats['cols'] (KeyError on the error dict, which
\* nothing catches), then the score inside try/except
ScanTable(d) ==
    /\ scan.pc = "running"
    /\ scan.todo # << >>
    /\ LET t == Head(scan.todo)
           stats == GetTableStats(d, TRUE)
       IN
       IF "rows" \in DOMAIN stats /\ "cols" \in DOMAIN stats
       THEN scan' = [pc |-> "running",
                     todo |-> Tail(scan.todo),
                     report |-> [x \in DOMAIN scan.report \cup {t} |->
                                    IF x = t THEN stats ELSE scan.report[x]]]
       ELSE scan' = [scan EXCEPT !.pc = "aborted"]
    /\ UNCHANGED <<db, conn, ires>>
    /\ UNCHANGED <<loaderVars, csvVars>>

\* the loop is over: inspector.close()
ScanEnd ==
    /\ scan.pc = "running"
    /\ scan.todo = << >>
    /\ scan' = [scan EXCEPT !.pc = "done"]
    /\ UNCHANGED <<db, conn, ires>>
    /\ UNCHANGED <<loaderVars, csvVars>>

\* the script is run again
ScanAgain ==
    /\ scan.pc \in {"done", "aborted"}
    /\ scan' = NoScan
    /\ UNCHANGED <<db, conn, ires>>
    /\ UNCHANGED <<loaderVars, csvVars>>

InspInit ==
    /\ db = NoTable
    /\ conn = "up"
    /\ ires = NoInspect
    /\ scan = NoScan

\* the caller is done with the call: its result and locals are dropped
Finish(l) ==
    /\ lpc[l] \in {"done", "raised"}
    /\ lpc' = [lpc EXCEPT ![l] = "idle"]
    /\ lbatch' = [lbatch EXCEPT ![l] = <<>>]
    /\ lrows' = [lrows EXCEPT ![l] = <<>>]
    /\ lidx' = [lidx EXCEPT ![l] = 1]
    /\ lresult' = [lresult EXCEPT ![l] = 0]
    /\ lbefore' = [lbefore EXCEPT ![l] = {}]
    /\ lrepeat' = [lrepeat EXCEPT ![l] = FALSE]
    /\ UNCHANGED <<table, lastCaller>>
    /\ UNCHANGED <<csvVars, inspVars>>

LoaderInit ==
    /\ table = {}
    /\ lpc = [l \in Loaders |-> "idle"]
    /\ lbatch = [l \in Loaders |-> <<>>]
    /\ lrows = [l \in Loaders |-> <<>>]
    /\ lidx = [l \in Loaders |-> 1]
    /\ lresult = [l \in Loaders |-> 0]
    /\ lbefore = [l \in Loaders |-> {}]
    /\ lrepeat = [l \in Loaders |-> FALSE]
    /\ lastCaller = "L1"

\* single-writer use: one loader, one call at a time
Writer == "L1"

Init == LoaderInit /\ CsvInit /\ InspInit

LoaderNext ==
    \/ \E batch \in Batches : LoadBegin(Writer, batch)
    \/ InsertRow(Writer)
    \/ CountAndReturn(Writer)
    \/ Finish(Writer)

SpecLoader == Init /\ [][LoaderNext]_vars

\* several loaders on one raw_jobs table, each a process of its own that
\* constructs a loader, loads one batch and closes; their statements
\* interleave.  The batches are built from two records with the same job_id
\* and a record with another job_id.
RaceJobs ==
    {Job(KeyNames[1], "x"), Job(KeyNames[1], "y"), Job(KeyNames[2], "x")}
RaceBatches == UNION {[1..n -> RaceJobs] : n \in 1..MaxBatch}

\* load_jobs_to_duckdb(jobs, db_path)
RunLoad(l, batch) ==
    /\ lpc[l] = "idle"
    /\ LoadBegin(l, batch)

RaceNext ==
    \/ \E l \in Loaders, batch \in RaceBatches : RunLoad(l, batch)
    \/ \E l \in Loaders : InsertRow(l)
    \/ \E l \in Loaders : CountAndReturn(l)

SpecLoaderRace == Init /\ [][RaceNext]_vars

\* single-writer use: one monitor, constructed again at every run
Checker == "M1"

\* "p" is the CSV under study: the environment does anything to it.  The
\* other monitored CSV is delivered before the first run and left alone.
StudyPaths == {"p"}

CsvNext ==
    \/ Construct(Checker)
    \/ \E path \in Paths, readOk \in BOOLEAN :
           CheckCsv(Checker, path, TRUE, readOk)
    \/ \E path \in StudyPaths, content \in Contents :
           WriteFile(path, content)
    \/ \E path \in StudyPaths, bytes \in 1..MaxLineBytes :
           AppendLine(path, bytes)
    \/ \E path \in StudyPaths : DeleteFile(path)
    \/ Tick

SpecCsv == Init /\ [][CsvNext]_vars

\* Scenario A: the CSV under study arrives with a header and 10 data rows
\* (bytesPerLine bytes a line) ...
DeliverTenRows(bytesPerLine) ==
    /\ ~files["p"].exists
    /\ WriteFile("p", [lines |-> 11, size |-> 11 * bytesPerLine])

\* ... and, once the monitor has seen it, two more rows are appended
AppendTwoRows(bytesPerLine) ==
    /\ "p" \in DOMAIN mon[Checker]
    /\ files["p"].lines = 11
    /\ AppendRows("p", 2, 2 * bytesPerLine)

ScenarioANext ==
    \/ Construct(Checker)
    \/ \E path \in Paths : CheckCsv(Checker, path, TRUE, TRUE)
    \/ \E bytesPerLine \in 1..MaxLineBytes : DeliverTenRows(bytesPerLine)
    \/ \E bytesPerLine \in 1..MaxLineBytes : AppendTwoRows(bytesPerLine)
    \/ Tick

SpecScenarioA == Init /\ [][ScenarioANext]_vars

\* two monitors on one state file, no lock: each was constructed before
\* the other's first save and may be constructed again at any time.  Both
\* CSVs are on disk from the start and are left alone.
SharedInit ==
    /\ LoaderInit
    /\ InspInit
    /\ files = [x \in Paths |->
                    [exists |-> TRUE, lines |-> 2, size |-> 2, mtime |-> 0]]
    /\ now = 0
    /\ stateFile = [exists |-> FALSE, map |-> << >>]
    /\ mon = [d \in Monitors |-> << >>]
    /\ fresh = [d \in Monitors |-> TRUE]
    /\ cres = NoCall
    /\ settled = {}
    /\ tally = NoTally

SharedNext ==
    \/ \E d \in Monitors : Construct(d)
    \/ \E d \in Monitors, path \in Paths : CheckCsv(d, path, TRUE, TRUE)
    \/ Tick

SpecCsvShared == SharedInit /\ [][SharedNext]_vars

\* one monitor whose state file cannot always be written (read-only
\* directory, full disk): open(state_file, 'w') may raise at any save.
\* The runs follow each other within one tick of the clock.
WriteFailNext ==
    \/ Construct(Checker)
    \/ \E path \in Paths, saveOk \in BOOLEAN :
           CheckCsv(Checker, path, saveOk, TRUE)
    \/ \E path \in StudyPaths, content \in Contents :
           WriteFile(path, content)

SpecCsvWriteFail == Init /\ [][WriteFailNext]_vars

\* a caller that checks the CSV under study and adds up the estimates of
\* the checks that reported a change; it also notes the file's line count
\* at each check (fell: lower than at the check before) and whether a
\* check counted fewer rows than the state held (shrunk)
CheckAndTally(path, readOk) ==
    /\ files[path].exists
    /\ tally.sum <= MaxLines
    /\ Check(Checker, path, TRUE, readOk)
    /\ tally' =
           [sum |-> tally.sum + (IF cres'.changed THEN cres'.new_rows ELSE 0),
            seen |-> TRUE,
            lines |-> files[path].lines,
            fell |-> tally.fell
                        \/ (tally.seen /\ files[path].lines < tally.lines),
            shrunk |-> tally.shrunk
                          \/ (cres'.site = "changed"
                              /\ mon'[Checker][path].row_count
                                     < cres'.previous_rows)]

\* the CSV under study is created, appended to and rewritten at will
\* (rewrites may drop rows) and may be unreadable when its rows are counted
TelescopeNext ==
    \/ \E path \in StudyPaths, readOk \in BOOLEAN : CheckAndTally(path, readOk)
    \/ \E path \in StudyPaths, content \in Contents :
           WriteFile(path, content)
    \/ \E path \in StudyPaths, bytes \in 1..MaxLineBytes :
           AppendLine(path, bytes)

SpecTelescope == Init /\ [][TelescopeNext]_vars

KeyArguments == {Null, NoSuchColumn} \cup ColSet(NumCols)

InspNext ==
    \/ \E key \in KeyArguments, lossAt \in 1..4 : GetQualityScore(key, lossAt)
    \/ Connect
    \/ \E n \in 1..NumCols : CreateTable(n)
    \/ DropTable
    \/ \E row \in AllRows : AddRow(row)
    \/ \E lost \in BOOLEAN : TableStats(lost)
    \/ \E key \in KeyArguments \ {Null}, lost \in BOOLEAN :
           Duplicates(key, lost)
    \/ \E lost \in BOOLEAN : NullValues(lost)

SpecInspect == Init /\ [][InspNext]_vars

\* The queries as functions of the table: the inspector is pointed at any
\* table of three columns and at most four rows, or at any single-column
\* table of six keys, over a connection that stays up.
SampleTables ==
    {[exists |-> TRUE, cols |-> ColSet(3), rows |-> r] :
        r \in UNION {[1..n -> RowsOver(ColSet(3))] : n \in 0..4}}
    \cup
    {[exists |-> TRUE, cols |-> ColSet(1), rows |-> r] :
        r \in [1..6 -> [ColSet(1) -> {"a", "b", "c"}]]}

TablesInit ==
    /\ LoaderInit
    /\ CsvInit
    /\ db \in SampleTables
    /\ conn = "up"
    /\ ires = NoInspect
    /\ scan = NoScan

TablesNext ==
    \/ \E key \in {Null} \cup ColSet(3) : GetQualityScore(key, 4)
    \/ TableStats(FALSE)
    \/ \E key \in ColSet(3) : Duplicates(key, FALSE)
    \/ NullValues(FALSE)

SpecTables == TablesInit /\ [][TablesNext]_vars

ScanNext ==
    \/ ScanBegin
    \/ \E d \in TableStates : ScanTable(d)
    \/ ScanEnd
    \/ ScanAgain

SpecScan == Init /\ [][ScanNext]_vars

(***************************************************************************)
(* Claims about DuckDBLoader (specification SpecLoader)                    *)
(***************************************************************************)
CallReturned(l) == lpc[l] = "done"

\* records of the batch whose key was not in raw_jobs when the call began
NewRecordCount(l) ==
    Cardinality({i \in 1..Len(lbatch[l]) :
                    lbatch[l][i]["job_id"] \notin TableKeys(lbefore[l])})

\* C1: a returned load reports the number of batch records whose job_id was
\* not in the table immediately before the call.
C1_InsertedCountIsNewRecords ==
    \A l \in Loaders : CallReturned(l) => lresult[l] = NewRecordCount(l)

\* C2: load(B); load(B) - the second call returns 0 and leaves the row count
\* of the table as the first call left it.
C2_SecondLoadReturnsZero ==
    \A l \in Loaders :
        (CallReturned(l) /\ lrepeat[l]) =>
            /\ lresult[l] = 0
            /\ Cardinality(table) = Cardinality(lbefore[l])

\* a record without a value for a required field: the key is missing or None
LacksRequiredField(job) ==
    \E f \in RequiredFields : job[f] \in {Absent, Null}

CallStarted(l) == lpc[l] # "idle"

\* C5: a batch holding a record that lacks a required field makes load fail
\* before anything is inserted: the call never returns normally and raw_jobs
\* stays as it was when the call began.
C5_InvalidBatchInsertsNothing ==
    \A l \in Loaders :
        (CallStarted(l) /\ \E i \in 1..Len(lbatch[l]) :
                               LacksRequiredField(lbatch[l][i])) =>
            /\ table = lbefore[l]
            /\ lpc[l] \notin {"count", "done"}

\* C6: a record whose job_id is already in raw_jobs is skipped: every row
\* present when the call began keeps all its field values, and load raises
\* only for a missing required key or a NOT NULL violation, never for the
\* conflict.
C6_ConflictKeepsExistingRow ==
    \A l \in Loaders :
        /\ \A k \in TableKeys(lbefore[l]) :
               RowsOf(table, k) = RowsOf(lbefore[l], k)
        /\ lpc[l] = "raised" =>
               \/ \E i \in 1..Len(lbatch[l]) : RaisesKeyError(lbatch[l][i])
               \/ ViolatesNotNull(lrows[l][lidx[l]])

\* C6 witness: a call returned whose batch held a record with a resident
\* job_id and other field values than the resident row.
C6_Witness ==
    \E l \in Loaders :
        /\ CallReturned(l)
        /\ \E i \in 1..Len(lbatch[l]) :
               /\ lbatch[l][i]["job_id"] \in TableKeys(lbefore[l])
               /\ PrepareRow(lbatch[l][i]) \notin lbefore[l]

\* C21: load_jobs called with an empty list returns 0 at once: the call
\* is over in the step that begins it, with no row prepared, no INSERT and
\* no count query, and raw_jobs is unchanged.
C21_EmptyBatchReturnsZero ==
    [][\A l \in Loaders :
          LoadBegin(l, << >>) =>
              /\ lpc'[l] = "done"
              /\ lresult'[l] = 0
              /\ lrows'[l] = << >>
              /\ table' = table]_vars

\* C21 witness: an empty load returned 0 on a table that holds rows.
C21_Witness ==
    \E l \in Loaders :
        /\ CallReturned(l)
        /\ lbatch[l] = << >>
        /\ lresult[l] = 0
        /\ table # {}
        /\ table = lbefore[l]

\* C24: the inserted_count of a load equals the number of rows that load
\* added to raw_jobs whenever no other loader is at work during the call;
\* only another loader's insert between this loader's insert step and
\* its count step makes the counts disagree with the rows added.
C24_CountCorrectWithoutRace ==
    \A l \in Loaders :
        (CallReturned(l) /\ \A o \in Loaders \ {l} : lpc[o] = "idle") =>
            lresult[l] = Cardinality(table \ lbefore[l])

\* C25: whatever the loaders, their batches and the interleaving of their
\* statements, no two rows of raw_jobs have the same job_id.
C25_PrimaryKeyUnique ==
    \A r1 \in table, r2 \in table : r1["job_id"] = r2["job_id"] => r1 = r2

\* C25 witness: two loaders, both started on the empty table, have both
\* returned; their batches hold different records for one job_id, and one
\* batch repeats a job_id.
C25_Witness ==
    /\ \A l \in Loaders : CallReturned(l) /\ lbefore[l] = {}
    /\ \E i \in 1..Len(lbatch["L1"]), j \in 1..Len(lbatch["L2"]) :
           /\ lbatch["L1"][i]["job_id"] = lbatch["L2"][j]["job_id"]
           /\ lbatch["L1"][i] # lbatch["L2"][j]
    /\ \E l \in Loaders :
           Cardinality(JobIds(lbatch[l])) < Len(lbatch[l])

\* the first record of batch that carries job_id k
FirstOccurrence(batch, k) ==
    batch[CHOOSE i \in 1..Len(batch) :
              /\ batch[i]["job_id"] = k
              /\ \A j \in 1..(i - 1) : batch[j]["job_id"] # k]

\* C26: when load(B) returns on a table with key set K, the key set of the
\* table is K united with the keys of B, the rows stored for the keys of K
\* are the rows stored before, and a key of B outside K holds the row made
\* from its first occurrence in B.
C26_TableAfterLoad ==
    \A l \in Loaders :
        CallReturned(l) =>
            /\ TableKeys(table) = TableKeys(lbefore[l]) \cup JobIds(lbatch[l])
            /\ \A k \in TableKeys(lbefore[l]) :
                   RowsOf(table, k) = RowsOf(lbefore[l], k)
            /\ \A k \in JobIds(lbatch[l]) \ TableKeys(lbefore[l]) :
                   RowsOf(table, k) =
                       {PrepareRow(FirstOccurrence(lbatch[l], k))}

\* C26 witness: a load returned on a table that held rows, with a batch
\* that carries two different records for one job_id new to the table.
C26_Witness ==
    \E l \in Loaders :
        /\ CallReturned(l)
        /\ lbefore[l] # {}
        /\ \E i \in 1..Len(lbatch[l]), j \in 1..Len(lbatch[l]) :
               /\ i < j
               /\ lbatch[l][i]["job_id"] = lbatch[l][j]["job_id"]
               /\ lbatch[l][i] # lbatch[l][j]
               /\ lbatch[l][i]["job_id"] \notin TableKeys(lbefore[l])

(***************************************************************************)
(* Claims about CSVMonitor (specification SpecCsv)                         *)
(***************************************************************************)
CheckReturned == cres.site \in {"missing", "first", "changed", "same"}

\* C3: every check returns a new-row estimate >= 0 and every stored
\* row_count is >= 0, whatever happened to the files.
C3_NonNegativeDelta ==
    /\ CheckReturned => cres.new_rows >= 0
    /\ \A d \in Monitors : \A path \in DOMAIN mon[d] :
           mon[d][path].row_count >= 0
    /\ \A path \in DOMAIN stateFile.map : stateFile.map[path].row_count >= 0

\* the step is a check_csv call of the monitor on a present, untracked path
FirstObservation(path, readOk) ==
    /\ CheckCsv(Checker, path, TRUE, readOk)
    /\ files[path].exists
    /\ path \notin DOMAIN mon[Checker]

\* C7 as stated: the first check of a present path returns changed = true,
\* the file's line count minus one and its size, and creates the entry.
C7_FirstObservationLinesMinusHeader ==
    [][\A path \in Paths, readOk \in BOOLEAN :
          FirstObservation(path, readOk) =>
              /\ cres'.changed
              /\ cres'.new_rows = files[path].lines - 1
              /\ cres'.size = files[path].size
              /\ path \in DOMAIN mon'[Checker]]_vars

\* C7 amended: the first check of a present path returns changed = true, its
\* size, and the row count as the monitor counts it - the line count minus
\* one when the file can be read and 0 when it cannot - and creates the
\* entry with that size and row count.
C7_FirstObservation ==
    [][\A path \in Paths, readOk \in BOOLEAN :
          FirstObservation(path, readOk) =>
              LET rows == IF readOk THEN files[path].lines - 1 ELSE 0 IN
              /\ cres'.changed
              /\ cres'.new_rows = rows
              /\ cres'.size = files[path].size
              /\ path \in DOMAIN mon'[Checker]
              /\ mon'[Checker][path].row_count = rows
              /\ mon'[Checker][path].size = files[path].size]_vars

\* C7 witness: a first observation of a readable file with a data row.
C7_Witness ==
    /\ cres.site = "first"
    /\ cres.read_ok
    /\ cres.new_rows = 1

\* C8: a check of a present path that was checked before and not modified
\* since returns changed = false and estimate 0, also when the monitor was
\* constructed from the state file after the earlier check.
C8_NoChangeStability ==
    (CheckReturned /\ cres.repeat) => (~cres.changed /\ cres.new_rows = 0)

\* C8 witness: such a check made as the first call of a monitor constructed
\* after the earlier check.
C8_Witness ==
    /\ CheckReturned
    /\ cres.repeat
    /\ cres.fresh
    /\ cres.path \in DOMAIN stateFile.map

\* the step is a check_csv call on a present, tracked path
TrackedCheck(path, readOk) ==
    /\ CheckCsv(Checker, path, TRUE, readOk)
    /\ files[path].exists
    /\ path \in DOMAIN mon[Checker]

\* C9: on a tracked path whose size differs from the stored size the check
\* returns changed = true and max(0, current rows - stored rows), and the
\* entry becomes exactly (current size, mtime, check time, current rows).
C9_SizeChangeOverwritesEntry ==
    [][\A path \in Paths, readOk \in BOOLEAN :
          (TrackedCheck(path, readOk)
             /\ files[path].size # mon[Checker][path].size) =>
              LET rows == IF readOk THEN files[path].lines - 1 ELSE 0
                  delta == rows - mon[Checker][path].row_count IN
              /\ cres'.changed
              /\ cres'.new_rows = IF delta > 0 THEN delta ELSE 0
              /\ cres'.size = files[path].size
              /\ mon'[Checker][path] =
                     [size |-> files[path].size,
                      mtime |-> files[path].mtime,
                      last_check |-> now,
                      row_count |-> rows]]_vars

\* C9 witness: a change was reported for a file that lost rows, and a later
\* time and mtime replaced the stored ones.
C9_Witness ==
    /\ cres.site = "changed"
    /\ cres.new_rows = 0
    /\ cres.previous_rows > mon[cres.by][cres.path].row_count
    /\ mon[cres.by][cres.path].last_check > 0

\* C10: on a tracked path whose size equals the stored size the check
\* returns (false, 0, size), counts no rows and changes neither self.state
\* nor the state file.
C10_EqualSizeTouchesNothing ==
    [][\A path \in Paths, readOk \in BOOLEAN :
          (TrackedCheck(path, readOk)
             /\ files[path].size = mon[Checker][path].size) =>
              /\ ~cres'.changed
              /\ cres'.new_rows = 0
              /\ cres'.size = files[path].size
              /\ ~cres'.counted
              /\ mon' = mon
              /\ stateFile' = stateFile]_vars

\* C10 witness: an equal-size check made at a later time than the stored
\* last_check, on a file rewritten since (other mtime, same size), with a
\* second path tracked.
C10_Witness ==
    /\ cres.site = "same"
    /\ mon[cres.by][cres.path].last_check < now
    /\ mon[cres.by][cres.path].mtime < files[cres.path].mtime
    /\ DOMAIN mon[cres.by] = Paths

\* C11: a check of a path that is not on disk returns (false, 0, 0) and
\* changes neither self.state nor the state file, whether the path has an
\* entry or not.
C11_MissingPathTouchesNothing ==
    [][\A path \in Paths, readOk \in BOOLEAN :
          (CheckCsv(Checker, path, TRUE, readOk) /\ ~files[path].exists) =>
              /\ ~cres'.changed
              /\ cres'.new_rows = 0
              /\ cres'.size = 0
              /\ ~cres'.counted
              /\ mon' = mon
              /\ stateFile' = stateFile]_vars

\* C11 witness: a check of a removed file that has an entry from an earlier
\* observation, made by a monitor constructed after the removal.
C11_Witness ==
    /\ cres.site = "missing"
    /\ cres.fresh
    /\ ~files[cres.path].exists
    /\ cres.path \in DOMAIN mon[cres.by]

\* C12 (specification SpecScenarioA): the first check of the CSV with a
\* header and 10 rows returns (true, 10, bytes); the check after two rows
\* were appended returns (true, 2, new bytes); a check with no modification
\* since the last one returns (false, 0, bytes).
C12_ScenarioA ==
    (CheckReturned /\ cres.path = "p" /\ files["p"].exists) =>
        LET lines == files["p"].lines
            result == <<cres.changed, cres.new_rows, cres.size>>
        IN
        /\ (lines = 11 /\ ~cres.repeat) =>
               result = <<TRUE, 10, files["p"].size>>
        /\ (lines = 13 /\ ~cres.repeat) =>
               result = <<TRUE, 2, files["p"].size>>
        /\ cres.repeat => result = <<FALSE, 0, files["p"].size>>

\* C12 witness: the third check of the scenario has returned.
C12_Witness ==
    /\ CheckReturned
    /\ cres.path = "p"
    /\ cres.repeat
    /\ files["p"].lines = 13
    /\ mon[cres.by]["p"].row_count = 12
    /\ cres.size = files["p"].size

\* C13: with a single monitor, every check that creates or overwrites an
\* entry leaves the state file holding the whole mapping - every path
\* tracked before and the one checked - equal to self.state, and a monitor
\* constructed from the file has exactly the state of the one before it.
C13_FullMappingPersisted ==
    [][/\ \A path \in Paths, readOk \in BOOLEAN :
              (CheckCsv(Checker, path, TRUE, readOk)
                 /\ cres'.site \in {"first", "changed"}) =>
                  /\ stateFile'.exists
                  /\ stateFile'.map = mon'[Checker]
                  /\ DOMAIN stateFile'.map = DOMAIN mon[Checker] \cup {path}
                  /\ \A other \in DOMAIN mon[Checker] \ {path} :
                         stateFile'.map[other] = mon[Checker][other]
       /\ Construct(Checker) => mon'[Checker] = mon[Checker]]_vars

\* C13 witness: an entry was overwritten while both paths were tracked, by
\* a monitor constructed from the state file just before.
C13_Witness ==
    /\ cres.site = "changed"
    /\ cres.fresh
    /\ DOMAIN stateFile.map = Paths
    /\ stateFile.map = mon[cres.by]

\* C19: when the file cannot be read while its rows are counted, the check
\* of a present path still returns normally; changed is true exactly when
\* the path is untracked or its size differs from the stored size, and the
\* entry written then has row_count 0.
C19_CountFailureDegrades ==
    [][\A path \in Paths :
          (CheckCsv(Checker, path, TRUE, FALSE) /\ files[path].exists) =>
              /\ cres'.site \in {"first", "changed", "same"}
              /\ cres'.changed =
                     (\/ path \notin DOMAIN mon[Checker]
                      \/ files[path].size # mon[Checker][path].size)
              /\ cres'.size = files[path].size
              /\ cres'.changed =>
                     /\ mon'[Checker][path].row_count = 0
                     /\ mon'[Checker][path].size = files[path].size
                     /\ stateFile'.map[path].row_count = 0]_vars

\* C19 witness: a change was reported for a file that holds a data row and
\* could not be read; the stored row count fell to 0.
C19_Witness ==
    /\ cres.site = "changed"
    /\ ~cres.read_ok
    /\ files[cres.path].lines > 1
    /\ cres.previous_rows > 0
    /\ mon[cres.by][cres.path].row_count = 0

\* C20: no step deletes an entry from self.state or from the state file,
\* also not a check of a path whose file was removed, and every entry
\* carries the four fields size, mtime, last_check and row_count.
C20_EntriesKeptAndComplete ==
    [][/\ DOMAIN mon[Checker] \subseteq DOMAIN mon'[Checker]
       /\ DOMAIN stateFile.map \subseteq DOMAIN stateFile'.map
       /\ \A path \in DOMAIN mon'[Checker] :
              DOMAIN mon'[Checker][path] =
                  {"size", "mtime", "last_check", "row_count"}
       /\ \A path \in DOMAIN stateFile'.map :
              DOMAIN stateFile'.map[path] =
                  {"size", "mtime", "last_check", "row_count"}]_vars

\* C20 witness: both paths are tracked and the file of one of them was
\* removed and checked again.
C20_Witness ==
    /\ cres.site = "missing"
    /\ ~cres.fresh
    /\ DOMAIN mon[cres.by] = Paths
    /\ DOMAIN stateFile.map = Paths

(***************************************************************************)
(* Claims about DataInspector (specification SpecInspect)                  *)
(***************************************************************************)
\* one of the sub-calls of the score came back with an error
ScoringQueryFailed ==
    \/ ires.dup.error
    \/ "error" \in DOMAIN ires.null_dict
    \/ "error" \in DOMAIN ires.stats

\* C4: when a query the score relies on fails, get_quality_score returns 0,
\* with or without a key column, and does not raise.
C4_FailedScoringYieldsZero ==
    (ires.op = "score" /\ ScoringQueryFailed) =>
        (ires.score = 0 /\ ~ires.raised)

\* the columns of the table that hold at least one NULL
NullColumns == {c \in db.cols : \E i \in 1..Len(db.rows) : db.rows[i][c] = Null}

\* the rows of the table whose value in column key is NULL
NullRows(col) == {i \in 1..Len(db.rows) : db.rows[i][col] = Null}

\* the rows of the table that share their key with another row
RepeatedRows(key) ==
    {i \in 1..Len(db.rows) :
        \E j \in 1..Len(db.rows) : j # i /\ db.rows[j][key] = db.rows[i][key]}

\* the last call found the table and had the connection throughout
Answered == db.exists /\ conn = "up"

\* C14: get_quality_score returns an integer in 0..100 whatever the table,
\* its contents, the key argument and the connection; without a key column
\* no duplicate penalty is applied, so a table with rows and no nulls scores
\* 100 however many rows repeat each other.
C14_ScoreBounds ==
    ires.op = "score" =>
        /\ ires.score \in 0..100
        /\ ires.key = Null =>
               /\ ires.penalty = 0
               /\ (Answered /\ Len(db.rows) > 0 /\ NullColumns = {}) =>
                      ires.score = 100

\* C14 witness: a score without key column of a table whose rows repeat
\* each other in every column.
C14_Witness ==
    /\ ires.op = "score"
    /\ ires.key = Null
    /\ Answered
    /\ \A c \in db.cols : RepeatedRows(c) # {}
    /\ ires.score = 100

\* C16: get_table_stats of a table that does not exist returns a mapping
\* with an 'error' entry and no counts, and does not raise; of an existing
\* table (connection up) it returns the row count, the column count and the
\* column names, the column count being the number of names.
C16_TableStats ==
    ires.op = "stats" =>
        /\ ~ires.raised
        /\ ~db.exists =>
               /\ "error" \in DOMAIN ires.stats
               /\ DOMAIN ires.stats \cap {"rows", "cols", "col_names"} = {}
        /\ Answered =>
               /\ DOMAIN ires.stats = {"rows", "cols", "col_names"}
               /\ ires.stats.rows = Len(db.rows)
               /\ ires.stats.col_names = db.cols
               /\ ires.stats.cols = Cardinality(ires.stats.col_names)

\* C16 witness: the stats of a missing table were asked over a working
\* connection.
C16_Witness ==
    /\ ires.op = "stats"
    /\ ~db.exists
    /\ conn = "up"
    /\ "error" \in DOMAIN ires.stats

\* C18: check_null_values of an existing table (connection up) returns a
\* mapping whose keys are exactly the columns with at least one NULL, each
\* with its number of NULL rows; a column without NULLs is not a key.
C18_NullCountsSparse ==
    (ires.op = "nulls" /\ Answered) =>
        /\ DOMAIN ires.null_dict = NullColumns
        /\ \A c \in DOMAIN ires.null_dict :
               /\ ires.null_dict[c] = Cardinality(NullRows(c))
               /\ ires.null_dict[c] > 0

\* C18 witness: one column is NULL in two rows and another column in none.
C18_Witness ==
    /\ ires.op = "nulls"
    /\ Answered
    /\ NullColumns # db.cols
    /\ \E c \in DOMAIN ires.null_dict : ires.null_dict[c] = 2

\* C29: a key column argument that names no column of the table makes the
\* score 0 whatever the table holds: the duplicate check answers with its
\* error value, the comparison of that value with 0 fails inside
\* get_quality_score and the handler returns 0 without raising; the same
\* table, when it has rows and no nulls, scores 100 without a key column.
C29_UnknownKeyColumnScoresZero ==
    ires.op = "score" =>
        /\ (ires.key # Null /\ db.exists /\ ires.key \notin db.cols) =>
               /\ ires.dup.error
               /\ ires.score = 0
               /\ ~ires.raised
        /\ (ires.key = Null /\ Answered /\ Len(db.rows) > 0
            /\ NullColumns = {}) =>
               ires.score = 100

\* C29 witness: a table with rows and no nulls, the connection up
\* throughout, scored 0 with a key column it does not have
C29_Witness ==
    /\ ires.op = "score"
    /\ ires.key = NoSuchColumn
    /\ Answered
    /\ Len(db.rows) > 0
    /\ NullColumns = {}
    /\ ires.dup.error
    /\ ires.score = 0

(***************************************************************************)
(* Claims about the inspector's queries as functions of the table          *)
(* (specification SpecTables)                                              *)
(***************************************************************************)
\* trunc(clamp(100 - D - 0.5 * (100 * n / c), 0, 100)): the value before
\* truncation lies in [40, 100], where clamping changes nothing and
\* truncation is the integer quotient
FormulaScore(key) ==
    IF Len(db.rows) = 0
    THEN 0
    ELSE LET D == IF key # Null /\ RepeatedRows(key) # {} THEN 10 ELSE 0
             n == Cardinality(NullColumns)
             c == Cardinality(db.cols)
         IN ((100 - D) * c - 50 * n) \div c

\* Scenario C: 3 columns, 4 rows, one column NULL in one row, no key column
ScenarioC(col) ==
    /\ Cardinality(db.cols) = 3
    /\ Len(db.rows) = 4
    /\ NullColumns = {col}
    /\ Cardinality(NullRows(col)) = 1
    /\ ires.key = Null

\* C15: for an existing table (connection up; the key column, when one is
\* supplied, a column of the table) the score is 0 for a table without rows
\* and else trunc(clamp(100 - D - 0.5 * (100 * n / c), 0, 100)), D = 10 when
\* a key column is supplied and some key value is repeated, else 0.  In
\* scenario C null_counts is {that column: 1} and the score is 83.
C15_ScoreFormula ==
    (ires.op = "score" /\ Answered
       /\ (ires.key = Null \/ ires.key \in db.cols)) =>
        /\ ires.score = FormulaScore(ires.key)
        /\ \A col \in db.cols :
               ScenarioC(col) =>
                   /\ DOMAIN ires.null_dict = {col}
                   /\ ires.null_dict[col] = 1
                   /\ ires.score = 83

\* C15 witness: the score of scenario C was computed.
C15_Witness ==
    /\ ires.op = "score"
    /\ \E col \in db.cols : ScenarioC(col)
    /\ ires.score = 83

\* the key values of the table's rows, in row order
KeyValues(key) == [i \in 1..Len(db.rows) |-> db.rows[i][key]]

\* C17: check_duplicates on a column of an existing table returns the
\* number of distinct key values held by more than one row; key values
\* [a, a, a, b, b, c] give 2.
C17_DistinctDuplicatedKeys ==
    (ires.op = "duplicates" /\ Answered /\ ires.key \in db.cols) =>
        /\ ~ires.dup.error
        /\ ires.dup.count =
               Cardinality({db.rows[i][ires.key] : i \in RepeatedRows(ires.key)})
        /\ KeyValues(ires.key) = <<"a", "a", "a", "b", "b", "c">> =>
               ires.dup.count = 2

\* C17 witness: the duplicates of the table with key values
\* [a, a, a, b, b, c] were counted.
C17_Witness ==
    /\ ires.op = "duplicates"
    /\ ires.key \in db.cols
    /\ KeyValues(ires.key) = <<"a", "a", "a", "b", "b", "c">>
    /\ ires.dup.count = 2

(***************************************************************************)
(* Claims about the inspection script (specification SpecScan)             *)
(***************************************************************************)
\* C22: a scan over several tables is not aborted by a table whose stats
\* cannot be computed: it never stops early, and when it is over every
\* listed table has its line.
C22_ScanSurvivesFailingTable ==
    /\ scan.pc # "aborted"
    /\ scan.pc = "done" =>
           DOMAIN scan.report = {ListedTables[i] : i \in 1..Len(ListedTables)}

\* C23: two monitors share one state file without a lock.  A save replaces
\* the file by the saving monitor's own mapping, so an entry that the other
\* monitor persisted after this one was constructed is gone from the file;
\* and a check of a path that is absent from the checking monitor's mapping
\* is a first observation (changed, all data rows as the estimate), however
\* often that path was checked before.
C23_LostUpdate ==
    [][\A d \in Monitors, path \in Paths :
          CheckCsv(d, path, TRUE, TRUE) =>
              /\ cres'.site \in {"first", "changed"} =>
                     /\ DOMAIN stateFile'.map = DOMAIN mon[d] \cup {path}
                     /\ \A x \in DOMAIN stateFile.map \ {path} :
                            x \notin DOMAIN mon[d] =>
                                x \notin DOMAIN stateFile'.map
              /\ path \notin DOMAIN mon[d] =>
                     /\ cres'.site = "first"
                     /\ cres'.changed
                     /\ cres'.new_rows = files[path].lines - 1
      ]_vars

\* C23 witness: a monitor constructed from the state file reports a first
\* observation of a path that the other monitor has checked and still
\* tracks, the file being unmodified since: the other monitor's entry was
\* lost from the state file
C23_Witness ==
    /\ cres.site = "first"
    /\ cres.fresh
    /\ cres.repeat
    /\ cres.changed
    /\ cres.new_rows = files[cres.path].lines - 1
    /\ \E e \in Monitors \ {cres.by} : cres.path \in DOMAIN mon[e]
    /\ \E x \in Paths \ {cres.path} :
           \A d \in Monitors : x \in DOMAIN mon[d]

\* C27: a check that has to create or overwrite an entry and whose state
\* file write fails raises, leaves the state file as it was, and has
\* replaced the entry in memory all the same; a later check by the same
\* monitor of the file, unchanged since, finds the sizes equal and returns
\* changed = false without writing anything, so the change is neither
\* reported nor persisted.
C27_FailedSaveKeepsNewEntry ==
    [][\A path \in Paths :
          LET f == files[path]
              m == mon[Checker]
              stale == path \notin DOMAIN m \/ m[path].size # f.size
              unsaved == \/ path \notin DOMAIN stateFile.map
                         \/ stateFile.map[path].size # f.size
          IN
          /\ (CheckCsv(Checker, path, FALSE, TRUE) /\ f.exists /\ stale) =>
                 /\ cres'.site = "raised"
                 /\ stateFile' = stateFile
                 /\ path \in DOMAIN mon'[Checker]
                 /\ mon'[Checker][path].size = f.size
                 /\ mon'[Checker][path].row_count = f.lines - 1
          /\ \A saveOk \in BOOLEAN :
                 (CheckCsv(Checker, path, saveOk, TRUE) /\ f.exists
                  /\ ~stale /\ unsaved) =>
                     /\ cres'.site = "same"
                     /\ ~cres'.changed
                     /\ cres'.new_rows = 0
                     /\ stateFile' = stateFile
      ]_vars

\* C27 witness: the monitor, not constructed since, returned changed =
\* false for a file whose size its in-memory entry holds while the state
\* file has no entry of that size for the path
C27_Witness ==
    /\ cres.site = "same"
    /\ ~cres.changed
    /\ ~cres.fresh
    /\ files[cres.path].lines > 1
    /\ mon[cres.by][cres.path].size = files[cres.path].size
    /\ \/ cres.path \notin DOMAIN stateFile.map
       \/ stateFile.map[cres.path].size # files[cres.path].size

\* the row_count the monitor holds for the CSV under study
StoredRowCount == mon[Checker]["p"].row_count

\* C28 as stated: from the first check of the path on, the sum of the
\* estimates returned with changed = true equals the stored row_count as
\* long as the file's row count was never lower at a check than at the
\* check before, and exceeds the stored row_count once it was.
C28_TelescopeByFileRows ==
    tally.seen =>
        /\ ~tally.fell => tally.sum = StoredRowCount
        /\ tally.fell => tally.sum > StoredRowCount

\* C28: from the first check of the path on, the sum of the estimates
\* returned with changed = true equals the stored row_count as long as no
\* check that reported a change counted fewer rows than the state held
\* (an unreadable file counts as 0 rows), and exceeds the stored row_count
\* once such a check was made; a drop of the file's row count that leaves
\* its size as it was goes unnoticed and changes neither.
C28_TelescopeByCountedRows ==
    tally.seen =>
        /\ ~tally.shrunk => tally.sum = StoredRowCount
        /\ tally.shrunk => tally.sum > StoredRowCount

\* C28 witness: rows were dropped and seen to be dropped, rows came again,
\* and the check that sees them returns a positive estimate on top of a
\* sum that already exceeded the stored row_count
C28_Witness ==
    /\ tally.shrunk
    /\ tally.fell
    /\ cres.site = "changed"
    /\ cres.read_ok
    /\ cres.new_rows > 0
    /\ tally.sum > StoredRowCount

\* C30: a check that returns changed = false returns 0 as its estimate;
\* the converse fails: a check that found the size of a tracked file changed
\* and counted no more rows than the state held returns changed = true
\* with the estimate 0.
C30_EstimateTiedOneWay ==
    /\ (CheckReturned /\ ~cres.changed) => cres.new_rows = 0
    /\ (cres.site = "changed"
        /\ mon[cres.by][cres.path].row_count <= cres.previous_rows) =>
           cres.changed /\ cres.new_rows = 0

\* C30 witness: a tracked file, readable, whose size changed while its
\* row count stayed what it was: changed = true, estimate 0
C30_Witness ==
    /\ cres.site = "changed"
    /\ cres.changed
    /\ cres.new_rows = 0
    /\ cres.read_ok
    /\ files[cres.path].lines > 1
    /\ mon[cres.by][cres.path].row_count = cres.previous_rows
    /\ mon[cres.by][cres.path].row_count = files[cres.path].lines - 1

====
